---- MODULE Spec2Model ----
(***************************************************************************)
(* Model of the AI-Refactor repository: the web shell                      *)
(* (Refactoring_web.py), the desktop shell (AICodeRefactorer.py) and the   *)
(* response cleaner both shells share.                                     *)
(*                                                                         *)
(* A Python str is the sequence of its characters.  An error value         *)
(* is the sequence of its lines, one message per line; None and the empty  *)
(* string are both the empty sequence, which is how every test the code    *)
(* makes on them (if err_ref, if error, {% if error %}) reads them.        *)
(***************************************************************************)
EXTENDS Integers, Sequences, FiniteSets, TLC

VARIABLES
    shell,              \* which program this process is: "web" or "desktop"
    phase,              \* "launch", "serving" or "aborted"
    service_up,         \* whether the model service is reachable at launch
    probes,             \* number of ollama.list() calls made by __main__
    calls,              \* ollama.chat calls of the latest pipeline run
    request,            \* web: method and form fields of the latest request
    requests,           \* web: number of POST requests served
    page,               \* web: arguments of the latest render_template_string
    run_enabled,        \* desktop: run_button.isEnabled()
    download_enabled,   \* desktop: download_button.isEnabled()
    output_text,        \* desktop: output_text.toPlainText()
    korean_explanation, \* desktop: CodeRefactorApp.korean_explanation
    inbox,              \* desktop: queued start_analysis_signal emissions
    outbox,             \* desktop: queued finished emissions
    dialog,             \* desktop: the QMessageBox shown since the latest dispatch
    last_result,        \* desktop: the result on_analysis_finished handled last
    prev_output,        \* desktop: output_text when the latest run was submitted
    dispatched,         \* desktop: number of start_analysis_signal emissions
    emitted,            \* desktop: number of finished emissions
    handled,            \* desktop: number of on_analysis_finished calls
    saved,              \* desktop: text of the latest file download_explanation wrote
    x,                  \* cleaner: the raw response text
    y,                  \* cleaner: clean_llm_response(x)
    z,                  \* cleaner: clean_llm_response(y)
    cpc                 \* cleaner: position of the cleaning run

vars == <<shell, phase, service_up, probes, calls, request, requests, page, run_enabled,
          download_enabled, output_text, korean_explanation, inbox, outbox,
          dialog, last_result, prev_output, dispatched, emitted, handled,
          saved, x, y, z, cpc>>

shellVars == <<shell, phase, service_up, probes, calls, request, requests, page, run_enabled,
               download_enabled, output_text, korean_explanation, inbox,
               outbox, dialog, last_result, prev_output, dispatched, emitted,
               handled, saved>>

desktopVars == <<run_enabled, download_enabled, output_text,
                 korean_explanation, inbox, outbox, dialog, last_result,
                 prev_output, dispatched, emitted, handled, saved>>

webVars == <<request, requests, page>>

cleanVars == <<x, y, z, cpc>>

(***************************************************************************)
(* Bounds.                                                                 *)
(***************************************************************************)
\* Longest raw response, counted in pieces, the cleaner is applied to.
MaxPieces == 5

\* Number of POST requests the web server serves in one behaviour.
MaxRequests == 1

\* Number of runs the desktop window dispatches in one behaviour.
MaxRuns == 2

(***************************************************************************)
(* Characters and strings.                                                 *)
(***************************************************************************)
NL == "\n"

\* The characters str.strip() removes that occur in the model.
Whitespace == {" ", NL}

\* The class [a-zA-Z] of the opening-fence pattern.
Letters ==
    {"a", "b", "c", "d", "e", "f", "g", "h", "i", "j", "k", "l", "m",
     "n", "o", "p", "q", "r", "s", "t", "u", "v", "w", "x", "y", "z",
     "A", "B", "C", "D", "E", "F", "G", "H", "I", "J", "K", "L", "M",
     "N", "O", "P", "Q", "R", "S", "T", "U", "V", "W", "X", "Y", "Z"}

\* The character U+0060, written by name.
Backtick == "backtick"

Fence == <<Backtick, Backtick, Backtick>>

Drop(s, n) == SubSeq(s, n + 1, Len(s))

Take(s, n) == SubSeq(s, 1, n)

StartsWith(s, p) == Len(s) >= Len(p) /\ Take(s, Len(p)) = p

EndsWith(s, p) == Len(s) >= Len(p) /\ Drop(s, Len(s) - Len(p)) = p

RECURSIVE LStrip(_)
LStrip(s) ==
    IF s # <<>> /\ Head(s) \in Whitespace THEN LStrip(Tail(s)) ELSE s

RECURSIVE RStrip(_)
RStrip(s) ==
    IF s # <<>> /\ s[Len(s)] \in Whitespace
    THEN RStrip(Take(s, Len(s) - 1))
    ELSE s

\* str.strip()
Strip(s) == RStrip(LStrip(s))

\* Length of the longest run of letters of s that starts at 1-based index i.
RECURSIVE LetterRun(_, _)
LetterRun(s, i) ==
    IF i <= Len(s) /\ s[i] \in Letters THEN 1 + LetterRun(s, i + 1) ELSE 0

\* The first re.sub, which removes an opening fence line (three backticks,
\* letters, newline): without re.MULTILINE ^ matches at the start of the
\* string only, and the letter run must be followed by the newline.
SubOpenFence(s) ==
    IF StartsWith(s, Fence)
    THEN LET k == LetterRun(s, 4)
         IN  IF 4 + k <= Len(s) /\ s[4 + k] = NL THEN Drop(s, 4 + k) ELSE s
    ELSE s

\* The second re.sub, which removes a closing fence line (newline, three
\* backticks): $ matches at the end of the string and just before a newline
\* that ends the string.
SubCloseFence(s) ==
    IF EndsWith(s, <<NL>> \o Fence)
    THEN Take(s, Len(s) - 4)
    ELSE IF EndsWith(s, <<NL>> \o Fence \o <<NL>>)
         THEN Take(s, Len(s) - 5) \o <<NL>>
         ELSE s

\* A cleaner that forgets the closing fence.
clean_llm_response_KeepCloseFence(response_text) ==
    Strip(SubOpenFence(Strip(response_text)))

clean_llm_response(response_text) ==
    Strip(SubCloseFence(SubOpenFence(Strip(response_text))))

(***************************************************************************)
(* The cleaner on its own: every raw response of at most MaxPieces         *)
(* pieces, cleaned once and then once more.                                *)
(***************************************************************************)
Pieces == {Fence, <<"a">>, <<"1">>, <<" ">>, <<NL>>}

RECURSIVE Texts(_)
Texts(n) ==
    IF n = 0
    THEN {<<>>}
    ELSE LET shorter == Texts(n - 1)
         IN  shorter \cup {p \o t : p \in Pieces, t \in shorter}

(***************************************************************************)
(* The model service.  One ollama.chat call either returns a payload whose *)
(* content is some text, returns the user content wrapped in a fenced code *)
(* block (the echoing service of the round-trip property), or faults: the  *)
(* call raises, or the payload read response['message']['content'] raises. *)
(***************************************************************************)
Languages == {"python", "javascript", "c", "ruby"}

\* The language tag as characters, as it follows an opening fence.
TagChars(language) ==
    CASE language = "python" -> <<"p", "y", "t", "h", "o", "n">>
      [] language = "javascript" ->
            <<"j", "a", "v", "a", "s", "c", "r", "i", "p", "t">>
      [] language = "c" -> <<"c">>
      [] OTHER -> <<"r", "u", "b", "y">>

\* str.capitalize() on the language tags.
Capitalize(language) ==
    CASE language = "python" -> "Python"
      [] language = "javascript" -> "Javascript"
      [] language = "c" -> "C"
      [] OTHER -> "Ruby"

\* S wrapped in a fenced code block: opening fence line with the language
\* tag, S, closing fence line.
Wrap(language, s) == Fence \o TagChars(language) \o <<NL>> \o s \o <<NL>> \o Fence

\* Source texts a user submits.
Sources ==
    {<<>>, <<" ">>, <<" ", "a", NL>>, Fence \o <<NL, "a", NL>> \o Fence}

\* Texts the service answers with.
Replies ==
    {<<" ", "k", NL>>, Fence \o <<NL, "b", NL>> \o Fence}

Causes == {"ConnectionError", "KeyError"}

Outcomes ==
    [kind : {"ok"}, text : Replies, cause : {"none"}]
    \cup [kind : {"echo"}, text : {<<>>}, cause : {"none"}]
    \cup [kind : {"fault"}, text : {<<>>}, cause : Causes]

\* response['message']['content'] of a call that did not fault.
Content(o, user, language) ==
    IF o.kind = "echo" THEN Wrap(language, user) ELSE o.text

\* One ollama.chat call with its messages and what came of it: the fault
\* raised (by the call or by the read of the payload) or the content read.
Chat(system_prompt, user, o, language) ==
    [system |-> system_prompt,
     user |-> user,
     fault |-> IF o.kind = "fault" THEN o.cause ELSE "none",
     content |-> IF o.kind = "fault" THEN <<>> ELSE Content(o, user, language)]

StageOf(call) == call.system[1]

(***************************************************************************)
(* Prompt registry.  A prompt is named by its stage and language.          *)
(***************************************************************************)
REFACTOR_PROMPTS ==
    [language \in {"python", "javascript", "c"} |-> <<"refactor", language>>]

DOCUMENT_PROMPTS ==
    [language \in {"python", "javascript", "c"} |-> <<"document", language>>]

KOREAN_EXPLAIN_PROMPT_TEMPLATE(language) == <<"explain", language>>

\* The message for a language without a prompt; it carries no stage label.
Unsupported(language) == [label |-> "unsupported", detail |-> language]

\* The message of a fault caught in a stage, labelled with the stage.
ApiError(stage, cause) == [label |-> stage, detail |-> cause]

(***************************************************************************)
(* Web shell: the stage functions of Refactoring_web.py.  Each returns the *)
(* pair (value, err) and the calls it issued.                              *)
(***************************************************************************)
\* A refactor stage that calls the service without looking the language up.
refactor_code_NoLookup(code_snippet, language, o) ==
    LET call == Chat(<<"refactor", language>>, code_snippet, o, language)
    IN  IF call.fault # "none"
        THEN [value |-> <<>>, err |-> <<ApiError("refactor", call.fault)>>,
              calls |-> <<call>>]
        ELSE [value |-> clean_llm_response(call.content),
              err |-> <<>>, calls |-> <<call>>]

refactor_code(code_snippet, language, o) ==
    IF language \notin DOMAIN REFACTOR_PROMPTS
    THEN [value |-> <<>>, err |-> <<Unsupported(language)>>, calls |-> <<>>]
    ELSE LET call == Chat(REFACTOR_PROMPTS[language], code_snippet, o, language)
         IN  IF call.fault # "none"
             THEN [value |-> <<>>, err |-> <<ApiError("refactor", call.fault)>>,
                   calls |-> <<call>>]
             ELSE [value |->
                       clean_llm_response(call.content),
                   err |-> <<>>, calls |-> <<call>>]

document_code(code_snippet, language, o) ==
    IF language \notin DOMAIN DOCUMENT_PROMPTS
    THEN [value |-> <<>>, err |-> <<Unsupported(language)>>, calls |-> <<>>]
    ELSE LET call == Chat(DOCUMENT_PROMPTS[language], code_snippet, o, language)
         IN  IF call.fault # "none"
             THEN [value |-> <<>>, err |-> <<ApiError("document", call.fault)>>,
                   calls |-> <<call>>]
             ELSE [value |->
                       clean_llm_response(call.content),
                   err |-> <<>>, calls |-> <<call>>]

\* An explain stage that calls the service a second time after a fault.
explain_code_in_korean_Retry(code_snippet, language, o) ==
    LET call == Chat(KOREAN_EXPLAIN_PROMPT_TEMPLATE(Capitalize(language)),
                     code_snippet, o, language)
    IN  IF call.fault # "none"
        THEN [value |-> <<>>, err |-> <<ApiError("explain", call.fault)>>,
              calls |-> <<call, call>>]
        ELSE [value |-> Strip(call.content),
              err |-> <<>>, calls |-> <<call>>]

explain_code_in_korean(code_snippet, language, o) ==
    LET call == Chat(KOREAN_EXPLAIN_PROMPT_TEMPLATE(Capitalize(language)),
                     code_snippet, o, language)
    IN  IF call.fault # "none"
        THEN [value |-> <<>>, err |-> <<ApiError("explain", call.fault)>>,
              calls |-> <<call>>]
        ELSE [value |-> Strip(call.content),
              err |-> <<>>, calls |-> <<call>>]

(***************************************************************************)
(* Web shell: the route home().                                            *)
(***************************************************************************)
\* The template arguments of a GET, which are home()'s initial locals.
EmptyPage ==
    [original_code |-> <<>>, refactored_code |-> <<>>, final_code |-> <<>>,
     korean_explanation |-> <<>>, error |-> <<>>,
     selected_language |-> "python"]

\* if error: error += "\n" + err  else: error = err
AddError(error, err) == IF error # <<>> THEN error \o err ELSE err

\* A route that goes on to the later stages after the refactor stage failed.
home_post_KeepGoing(original_code, selected_language, o1, o2, o3) ==
    LET ref == refactor_code(original_code, selected_language, o1)
        doc == document_code(ref.value, selected_language, o2)
        kor == explain_code_in_korean(ref.value, selected_language, o3)
        error2 == IF doc.err # <<>> THEN AddError(ref.err, doc.err)
                  ELSE ref.err
        error3 == IF kor.err # <<>> THEN AddError(error2, kor.err)
                  ELSE error2
    IN  [page |->
             [original_code |-> original_code,
              refactored_code |-> ref.value,
              final_code |-> IF doc.err # <<>> THEN <<>> ELSE doc.value,
              korean_explanation |->
                  IF kor.err # <<>> THEN <<>> ELSE kor.value,
              error |-> error3,
              selected_language |-> selected_language],
         calls |-> ref.calls \o doc.calls \o kor.calls]

\* A route that gives up the explanation once the document stage failed.
home_post_SkipExplain(original_code, selected_language, o1, o2, o3) ==
    LET ref == refactor_code(original_code, selected_language, o1)
    IN  IF ref.err # <<>>
        THEN [page |-> [EmptyPage EXCEPT !.original_code = original_code,
                                         !.selected_language = selected_language,
                                         !.error = ref.err],
              calls |-> ref.calls]
        ELSE LET doc == document_code(ref.value, selected_language, o2)
                 kor == explain_code_in_korean(ref.value, selected_language, o3)
             IN  IF doc.err # <<>>
                 THEN [page |->
                           [original_code |-> original_code,
                            refactored_code |-> ref.value,
                            final_code |-> <<>>,
                            korean_explanation |-> <<>>,
                            error |-> doc.err,
                            selected_language |-> selected_language],
                       calls |-> ref.calls \o doc.calls]
                 ELSE [page |->
                           [original_code |-> original_code,
                            refactored_code |-> ref.value,
                            final_code |-> doc.value,
                            korean_explanation |->
                                IF kor.err # <<>> THEN <<>> ELSE kor.value,
                            error |-> kor.err,
                            selected_language |-> selected_language],
                       calls |-> ref.calls \o doc.calls \o kor.calls]

\* A route that explains the documented code when there is one.
home_post_ExplainDocumented(original_code, selected_language, o1, o2, o3) ==
    LET ref == refactor_code(original_code, selected_language, o1)
    IN  IF ref.err # <<>>
        THEN [page |-> [EmptyPage EXCEPT !.original_code = original_code,
                                         !.selected_language = selected_language,
                                         !.error = ref.err],
              calls |-> ref.calls]
        ELSE LET doc == document_code(ref.value, selected_language, o2)
                 final == IF doc.err # <<>> THEN <<>> ELSE doc.value
                 kor == explain_code_in_korean(
                            IF doc.err # <<>> THEN ref.value ELSE final,
                            selected_language, o3)
                 error2 == IF doc.err # <<>> THEN AddError(<<>>, doc.err)
                           ELSE <<>>
                 error3 == IF kor.err # <<>> THEN AddError(error2, kor.err)
                           ELSE error2
             IN  [page |->
                      [original_code |-> original_code,
                       refactored_code |-> ref.value,
                       final_code |-> final,
                       korean_explanation |->
                           IF kor.err # <<>> THEN <<>> ELSE kor.value,
                       error |-> error3,
                       selected_language |-> selected_language],
                  calls |-> ref.calls \o doc.calls \o kor.calls]

\* The POST branch of home(): the template arguments it renders and the
\* calls it issued, for the outcomes o1, o2, o3 of the three stages' calls.
home_post(original_code, selected_language, o1, o2, o3) ==
    LET ref == refactor_code(original_code, selected_language, o1)
    IN  IF ref.err # <<>>
        THEN [page |-> [EmptyPage EXCEPT !.original_code = original_code,
                                         !.selected_language = selected_language,
                                         !.error = ref.err],
              calls |-> ref.calls]
        ELSE LET doc == document_code(ref.value, selected_language, o2)
                 kor == explain_code_in_korean(ref.value, selected_language, o3)
                 error2 == IF doc.err # <<>> THEN AddError(<<>>, doc.err)
                           ELSE <<>>
                 error3 == IF kor.err # <<>> THEN AddError(error2, kor.err)
                           ELSE error2
             IN  [page |->
                      [original_code |-> original_code,
                       refactored_code |-> ref.value,
                       final_code |-> IF doc.err # <<>> THEN <<>> ELSE doc.value,
                       korean_explanation |->
                           IF kor.err # <<>> THEN <<>> ELSE kor.value,
                       error |-> error3,
                       selected_language |-> selected_language],
                  calls |-> ref.calls \o doc.calls \o kor.calls]

\* The request of a GET, which carries no form.
NoRequest == [method |-> "GET", code_input |-> <<>>, language |-> "python"]

\* __main__ of Refactoring_web.py: app.run, with no call to the service.
WebMain ==
    /\ shell = "web"
    /\ phase = "launch"
    /\ phase' = "serving"
    /\ UNCHANGED webVars
    /\ UNCHANGED <<shell, service_up, probes, calls>>
    /\ UNCHANGED desktopVars
    /\ UNCHANGED cleanVars

\* home() for a GET.
home_GET ==
    /\ shell = "web"
    /\ phase = "serving"
    /\ request' = NoRequest
    /\ page' = EmptyPage
    /\ calls' = <<>>
    /\ UNCHANGED <<shell, phase, service_up, probes, requests>>
    /\ UNCHANGED desktopVars
    /\ UNCHANGED cleanVars

\* home() for a POST with the form fields code_input and language.
home_POST ==
    /\ shell = "web"
    /\ phase = "serving"
    /\ requests < MaxRequests
    /\ requests' = requests + 1
    /\ \E code_input \in Sources, language \in Languages,
          o1 \in Outcomes, o2 \in Outcomes, o3 \in Outcomes :
          LET r == home_post(code_input, language, o1, o2, o3)
          IN  /\ request' = [method |-> "POST", code_input |-> code_input,
                             language |-> language]
              /\ page' = r.page
              /\ calls' = r.calls
    /\ UNCHANGED <<shell, phase, service_up, probes>>
    /\ UNCHANGED desktopVars
    /\ UNCHANGED cleanVars

(***************************************************************************)
(* Desktop shell: OllamaWorker, which runs on the worker thread.           *)
(***************************************************************************)
OllamaWorker_clean_llm_response(response_text) ==
    Strip(SubCloseFence(SubOpenFence(Strip(response_text))))

OllamaWorker_refactor_code(code_snippet, language, o) ==
    IF language \notin DOMAIN REFACTOR_PROMPTS
    THEN [value |-> <<>>, err |-> <<Unsupported(language)>>, calls |-> <<>>]
    ELSE LET call == Chat(REFACTOR_PROMPTS[language], code_snippet, o, language)
         IN  IF call.fault # "none"
             THEN [value |-> <<>>, err |-> <<ApiError("refactor", call.fault)>>,
                   calls |-> <<call>>]
             ELSE [value |-> OllamaWorker_clean_llm_response(
                                 call.content),
                   err |-> <<>>, calls |-> <<call>>]

OllamaWorker_explain_code_in_korean(code_snippet, language, o) ==
    LET call == Chat(KOREAN_EXPLAIN_PROMPT_TEMPLATE(Capitalize(language)),
                     code_snippet, o, language)
    IN  IF call.fault # "none"
        THEN [value |-> <<>>, err |-> <<ApiError("explain", call.fault)>>,
              calls |-> <<call>>]
        ELSE [value |-> Strip(call.content),
              err |-> <<>>, calls |-> <<call>>]

\* The result dict run_analysis starts from.
EmptyResult ==
    [refactored_code |-> <<>>, korean_explanation |-> <<>>, error |-> <<>>]

\* run_analysis for the outcomes o1, o2 of its two calls: the results it
\* emits on the finished signal, in order, and the calls it issued.
run_analysis(code, language, o1, o2) ==
    LET ref == OllamaWorker_refactor_code(code, language, o1)
    IN  IF ref.err # <<>>
        THEN [emits |-> <<[EmptyResult EXCEPT !.error = ref.err]>>,
              calls |-> ref.calls]
        ELSE LET kor == OllamaWorker_explain_code_in_korean(ref.value,
                                                             language, o2)
             IN  IF kor.err # <<>>
                 THEN [emits |-> <<[EmptyResult EXCEPT
                                       !.refactored_code = ref.value,
                                       !.error = kor.err]>>,
                       calls |-> ref.calls \o kor.calls]
                 ELSE [emits |-> <<[EmptyResult EXCEPT
                                       !.refactored_code = ref.value,
                                       !.korean_explanation = kor.value]>>,
                       calls |-> ref.calls \o kor.calls]

(***************************************************************************)
(* Desktop shell: CodeRefactorApp, which runs on the interactive thread.   *)
(***************************************************************************)
\* The items of lang_combo.
ComboItems == {"Python", "JavaScript", "C"}

\* str.lower() on the items of lang_combo.
Lower(item) ==
    CASE item = "Python" -> "python"
      [] item = "JavaScript" -> "javascript"
      [] OTHER -> "c"

\* __main__ of AICodeRefactorer.py: ollama.list(), then the window.
DesktopMain ==
    /\ shell = "desktop"
    /\ phase = "launch"
    /\ probes' = probes + 1
    /\ IF service_up
       THEN /\ phase' = "serving"
            /\ korean_explanation' = <<>>
            /\ run_enabled' = TRUE
            /\ download_enabled' = FALSE
            /\ output_text' = <<>>
       ELSE /\ phase' = "aborted"
            /\ UNCHANGED <<korean_explanation, run_enabled, download_enabled,
                           output_text>>
    /\ UNCHANGED webVars
    /\ UNCHANGED <<shell, service_up, calls, inbox, outbox, dialog,
                   last_result, prev_output, dispatched, emitted,
                   handled, saved>>
    /\ UNCHANGED cleanVars

\* A start_analysis that leaves the run button enabled.
start_analysis_KeepEnabled ==
    /\ shell = "desktop"
    /\ phase = "serving"
    /\ run_enabled
    /\ \E code \in Sources, item \in ComboItems :
          LET language == Lower(item)
          IN  IF Strip(code) = <<>>
              THEN /\ dialog' = "input_warning"
                   /\ UNCHANGED <<run_enabled, download_enabled, output_text,
                                  inbox, prev_output, dispatched>>
              ELSE /\ dispatched < MaxRuns
                   /\ run_enabled' = run_enabled
                   /\ download_enabled' = FALSE
                   /\ prev_output' = output_text
                   /\ output_text' = <<>>
                   /\ inbox' = Append(inbox, [code |-> code,
                                              language |-> language])
                   /\ dispatched' = dispatched + 1
                   /\ dialog' = "none"
    /\ UNCHANGED webVars
    /\ UNCHANGED <<shell, phase, service_up, probes, calls,
                   korean_explanation, outbox, last_result, emitted, handled,
                   saved>>
    /\ UNCHANGED cleanVars

\* A start_analysis that leaves the download button as it is.
start_analysis_KeepDownload ==
    /\ shell = "desktop"
    /\ phase = "serving"
    /\ run_enabled
    /\ \E code \in Sources, item \in ComboItems :
          LET language == Lower(item)
          IN  IF Strip(code) = <<>>
              THEN /\ dialog' = "input_warning"
                   /\ UNCHANGED <<run_enabled, download_enabled, output_text,
                                  inbox, prev_output, dispatched>>
              ELSE /\ dispatched < MaxRuns
                   /\ run_enabled' = FALSE
                   /\ download_enabled' = download_enabled
                   /\ prev_output' = output_text
                   /\ output_text' = <<>>
                   /\ inbox' = Append(inbox, [code |-> code,
                                              language |-> language])
                   /\ dispatched' = dispatched + 1
                   /\ dialog' = "none"
    /\ UNCHANGED webVars
    /\ UNCHANGED <<shell, phase, service_up, probes, calls,
                   korean_explanation, outbox, last_result, emitted, handled,
                   saved>>
    /\ UNCHANGED cleanVars

\* start_analysis, the slot of run_button.clicked: it runs only while the
\* button is enabled.
start_analysis ==
    /\ shell = "desktop"
    /\ phase = "serving"
    /\ run_enabled
    /\ \E code \in Sources, item \in ComboItems :
          LET language == Lower(item)
          IN  IF Strip(code) = <<>>
              THEN /\ dialog' = "input_warning"
                   /\ UNCHANGED <<run_enabled, download_enabled, output_text,
                                  inbox, prev_output, dispatched>>
              ELSE /\ dispatched < MaxRuns
                   /\ run_enabled' = FALSE
                   /\ download_enabled' = FALSE
                   /\ prev_output' = output_text
                   /\ output_text' = <<>>
                   /\ inbox' = Append(inbox, [code |-> code,
                                              language |-> language])
                   /\ dispatched' = dispatched + 1
                   /\ dialog' = "none"
    /\ UNCHANGED webVars
    /\ UNCHANGED <<shell, phase, service_up, probes, calls,
                   korean_explanation, outbox, last_result, emitted, handled,
                   saved>>
    /\ UNCHANGED cleanVars

\* The worker thread takes the oldest queued request and runs run_analysis.
worker_run_analysis ==
    /\ shell = "desktop"
    /\ phase = "serving"
    /\ inbox # <<>>
    /\ \E o1 \in Outcomes, o2 \in Outcomes :
          LET r == run_analysis(Head(inbox).code, Head(inbox).language, o1, o2)
          IN  /\ outbox' = outbox \o r.emits
              /\ emitted' = emitted + Len(r.emits)
              /\ calls' = r.calls
    /\ inbox' = Tail(inbox)
    /\ UNCHANGED webVars
    /\ UNCHANGED <<shell, phase, service_up, probes, run_enabled,
                   download_enabled, output_text, korean_explanation, dialog,
                   last_result, prev_output, dispatched, handled,
                   saved>>
    /\ UNCHANGED cleanVars

\* An on_analysis_finished that shows the refactored code of a failed run.
on_analysis_finished_ShowPartial ==
    /\ shell = "desktop"
    /\ phase = "serving"
    /\ outbox # <<>>
    /\ LET result == Head(outbox)
       IN  /\ run_enabled' = TRUE
           /\ last_result' = result
           /\ IF result.error # <<>>
              THEN /\ dialog' = "api_error"
                   /\ output_text' = result.refactored_code
                   /\ UNCHANGED <<korean_explanation, download_enabled>>
              ELSE /\ output_text' = result.refactored_code
                   /\ korean_explanation' = result.korean_explanation
                   /\ download_enabled' = TRUE
                   /\ UNCHANGED dialog
    /\ outbox' = Tail(outbox)
    /\ handled' = handled + 1
    /\ UNCHANGED webVars
    /\ UNCHANGED <<shell, phase, service_up, probes, calls, inbox,
                   prev_output, dispatched, emitted, saved>>
    /\ UNCHANGED cleanVars

\* on_analysis_finished, the slot of the worker's finished signal.
on_analysis_finished ==
    /\ shell = "desktop"
    /\ phase = "serving"
    /\ outbox # <<>>
    /\ LET result == Head(outbox)
       IN  /\ run_enabled' = TRUE
           /\ last_result' = result
           /\ IF result.error # <<>>
              THEN /\ dialog' = "api_error"
                   /\ output_text' = <<>>
                   /\ UNCHANGED <<korean_explanation, download_enabled>>
              ELSE /\ output_text' = result.refactored_code
                   /\ korean_explanation' = result.korean_explanation
                   /\ download_enabled' = TRUE
                   /\ UNCHANGED dialog
    /\ outbox' = Tail(outbox)
    /\ handled' = handled + 1
    /\ UNCHANGED webVars
    /\ UNCHANGED <<shell, phase, service_up, probes, calls, inbox,
                   prev_output, dispatched, emitted, saved>>
    /\ UNCHANGED cleanVars

\* download_explanation, the slot of download_button.clicked: the user may
\* cancel the file dialog, and the write may fail.
download_explanation ==
    /\ shell = "desktop"
    /\ phase = "serving"
    /\ download_enabled
    /\ IF korean_explanation = <<>>
       THEN UNCHANGED <<saved, dialog>>
       ELSE \E fileName \in BOOLEAN, written \in BOOLEAN :
               IF ~fileName
               THEN UNCHANGED <<saved, dialog>>
               ELSE IF written
                    THEN saved' = korean_explanation /\ UNCHANGED dialog
                    ELSE dialog' = "save_error" /\ UNCHANGED saved
    /\ UNCHANGED webVars
    /\ UNCHANGED <<shell, phase, service_up, probes, calls, run_enabled,
                   download_enabled, output_text, korean_explanation, inbox,
                   outbox, last_result, prev_output, dispatched,
                   emitted, handled>>
    /\ UNCHANGED cleanVars

(***************************************************************************)
(* The two programs.                                                       *)
(***************************************************************************)
NotSaved == <<"none">>

Init ==
    /\ shell \in {"web", "desktop"}
    /\ phase = "launch"
    /\ service_up \in BOOLEAN
    /\ probes = 0
    /\ calls = <<>>
    /\ request = NoRequest
    /\ requests = 0
    /\ page = EmptyPage
    /\ run_enabled = TRUE
    /\ download_enabled = FALSE
    /\ output_text = <<>>
    /\ korean_explanation = <<>>
    /\ inbox = <<>>
    /\ outbox = <<>>
    /\ dialog = "none"
    /\ last_result = EmptyResult
    /\ prev_output = <<>>
    /\ dispatched = 0
    /\ emitted = 0
    /\ handled = 0
    /\ saved = NotSaved
    /\ x = <<>>
    /\ y = <<>>
    /\ z = <<>>
    /\ cpc = "off"

Next ==
    \/ WebMain
    \/ home_GET
    \/ home_POST
    \/ DesktopMain
    \/ start_analysis
    \/ worker_run_analysis
    \/ on_analysis_finished
    \/ download_explanation

Spec == Init /\ [][Next]_vars

(***************************************************************************)
(* The cleaner on its own.                                                 *)
(***************************************************************************)
InitClean ==
    /\ shell = "none"
    /\ phase = "launch"
    /\ service_up = TRUE
    /\ probes = 0
    /\ calls = <<>>
    /\ request = NoRequest
    /\ requests = 0
    /\ page = EmptyPage
    /\ run_enabled = TRUE
    /\ download_enabled = FALSE
    /\ output_text = <<>>
    /\ korean_explanation = <<>>
    /\ inbox = <<>>
    /\ outbox = <<>>
    /\ dialog = "none"
    /\ last_result = EmptyResult
    /\ prev_output = <<>>
    /\ dispatched = 0
    /\ emitted = 0
    /\ handled = 0
    /\ saved = NotSaved
    /\ x \in Texts(MaxPieces)
    /\ y = <<>>
    /\ z = <<>>
    /\ cpc = "raw"

\* The web shell's cleaner applied to the raw text.
CleanOnce ==
    /\ cpc = "raw"
    /\ y' = clean_llm_response(x)
    /\ cpc' = "cleaned"
    /\ UNCHANGED <<x, z>>
    /\ UNCHANGED shellVars

\* The cleaner applied to its own output.
CleanAgain ==
    /\ cpc = "cleaned"
    /\ z' = clean_llm_response(y)
    /\ cpc' = "recleaned"
    /\ UNCHANGED <<x, y>>
    /\ UNCHANGED shellVars

NextClean == CleanOnce \/ CleanAgain

SpecClean == InitClean /\ [][NextClean]_vars

(***************************************************************************)
(* Properties.                                                             *)
(***************************************************************************)
Supported == {"python", "javascript", "c"}

Posted == shell = "web" /\ request.method = "POST"

\* Desktop: the result of the latest run the worker finished.
LatestResult == IF outbox # <<>> THEN outbox[Len(outbox)] ELSE last_result

\* The stages whose calls the latest run issued, in order.
StagesCalled == [i \in DOMAIN calls |-> StageOf(calls[i])]

\* Desktop: runs dispatched whose result has not been handled yet.
InFlight == Len(inbox) + Len(outbox)

\* C1: a run for a language tag outside {python, javascript, c} ends with
\* an error, with every content field empty and with no call issued to the
\* model service.  The desktop window only offers the three supported
\* languages, so for run_analysis the same is required of every result it
\* can compute for such a tag.
C1_UnsupportedLanguageRejected ==
    /\ (Posted /\ request.language \notin Supported) =>
           /\ page.error # <<>>
           /\ page.refactored_code = <<>>
           /\ page.final_code = <<>>
           /\ page.korean_explanation = <<>>
           /\ calls = <<>>
    /\ (shell = "desktop" /\ phase = "serving") =>
           \A code \in Sources, language \in Languages \ Supported,
              o1 \in Outcomes, o2 \in Outcomes :
              LET r == run_analysis(code, language, o1, o2)
              IN  /\ r.calls = <<>>
                  /\ Len(r.emits) = 1
                  /\ r.emits[1].error # <<>>
                  /\ r.emits[1].refactored_code = <<>>
                  /\ r.emits[1].korean_explanation = <<>>

C1_Witness ==
    /\ Posted
    /\ request.language = "ruby"
    /\ request.code_input # <<>>
    /\ page.error = <<Unsupported("ruby")>>

\* C2: a run for the empty source string returns an error and issues no
\* model call, in the web shell and in the desktop shell.
C2_EmptySourceRejected ==
    /\ (Posted /\ request.code_input = <<>>) =>
           /\ page.error # <<>>
           /\ calls = <<>>
    /\ shell = "desktop" =>
           /\ \A i \in DOMAIN inbox : inbox[i].code # <<>>
           /\ \A i \in DOMAIN calls :
                 StageOf(calls[i]) = "refactor" => calls[i].user # <<>>

\* C3: when the refactor stage of a run fails, the run issues no document
\* and no explain call, its documented code and Korean explanation are
\* empty, and its error is the refactor stage's message alone.
C3_RefactorFailureStopsRun ==
    /\ (Posted /\ calls # <<>> /\ calls[1].fault # "none") =>
           /\ StagesCalled = <<"refactor">>
           /\ page.final_code = <<>>
           /\ page.korean_explanation = <<>>
           /\ page.error = <<ApiError("refactor", calls[1].fault)>>
    /\ (shell = "desktop" /\ calls # <<>> /\ calls[1].fault # "none") =>
           /\ StagesCalled = <<"refactor">>
           /\ LatestResult.korean_explanation = <<>>
           /\ LatestResult.error = <<ApiError("refactor", calls[1].fault)>>

C3_Witness ==
    /\ Posted
    /\ request.language = "python"
    /\ Len(calls) = 1
    /\ calls[1].fault = "ConnectionError"
    /\ page.error = <<ApiError("refactor", "ConnectionError")>>

\* C4: in the web shell, when the refactor stage succeeds and only the
\* document stage fails, the explain stage is still called, the page
\* carries the cleaned refactored code and the stripped explanation, and
\* its error is the document stage's message.
C4_DocumentFailureKeepsExplanation ==
    (/\ Posted
     /\ Len(calls) >= 2
     /\ calls[1].fault = "none"
     /\ calls[2].fault # "none") =>
        /\ StagesCalled = <<"refactor", "document", "explain">>
        /\ page.refactored_code = clean_llm_response(calls[1].content)
        /\ page.final_code = <<>>
        /\ calls[3].fault = "none" =>
              /\ page.korean_explanation = Strip(calls[3].content)
              /\ page.error = <<ApiError("document", calls[2].fault)>>

C4_Witness ==
    /\ Posted
    /\ Len(calls) = 3
    /\ calls[2].fault = "KeyError"
    /\ calls[3].fault = "none"
    /\ page.refactored_code # <<>>
    /\ page.korean_explanation # <<>>
    /\ page.error = <<ApiError("document", "KeyError")>>

\* C5: the user content of every explain call is the cleaned output of the
\* same run's refactor call, whatever became of the document stage.
C5_ExplainReadsRefactoredCode ==
    \A i \in DOMAIN calls :
        StageOf(calls[i]) = "explain" =>
            /\ StageOf(calls[1]) = "refactor"
            /\ calls[1].fault = "none"
            /\ calls[i].user = clean_llm_response(calls[1].content)

C5_Witness ==
    /\ Posted
    /\ Len(calls) = 3
    /\ StageOf(calls[3]) = "explain"
    /\ page.final_code # <<>>
    /\ calls[3].user # page.final_code
    /\ calls[3].user # request.code_input
    /\ calls[3].user = page.refactored_code

\* C6: in the desktop shell at most one run is in flight; while one is,
\* the run button is disabled; every run the worker has taken has emitted
\* exactly one finished notification; and once the notification is handled
\* the button is enabled again, error or not.
C6_OneRunInFlight ==
    shell = "desktop" =>
        /\ InFlight <= 1
        /\ InFlight = dispatched - handled
        /\ emitted = dispatched - Len(inbox)
        /\ InFlight = 1 => ~run_enabled
        /\ (phase = "serving" /\ InFlight = 0) => run_enabled

C6_Witness ==
    /\ shell = "desktop"
    /\ dispatched = 2
    /\ handled = 1
    /\ last_result.error # <<>>
    /\ outbox # <<>>
    /\ ~run_enabled

\* C7: cleaning a cleaned response changes nothing.
C7_CleanIdempotent == cpc = "recleaned" => z = y

\* C8 as stated: when the service answers the refactor call with the source
\* S wrapped in a fenced code block, the refactored code is S exactly.
C8_RoundTripExact ==
    (/\ Posted
     /\ request.language \in Supported
     /\ request.code_input # <<>>
     /\ calls # <<>>
     /\ calls[1].fault = "none"
     /\ calls[1].content = Wrap(request.language, request.code_input)) =>
        page.refactored_code = request.code_input

\* C8 as amended: when the service answers the refactor call with the
\* source S wrapped in a fenced code block, the refactored code is S with
\* its leading and trailing whitespace removed, also when S itself begins
\* or ends with a fence line.
C8_RoundTripTrimmed ==
    (/\ Posted
     /\ request.language \in Supported
     /\ request.code_input # <<>>
     /\ calls # <<>>
     /\ calls[1].fault = "none"
     /\ calls[1].content = Wrap(request.language, request.code_input)) =>
        page.refactored_code = Strip(request.code_input)

C8_Witness ==
    /\ Posted
    /\ request.code_input = Fence \o <<NL, "a", NL>> \o Fence
    /\ calls # <<>>
    /\ calls[1].content = Wrap(request.language, request.code_input)
    /\ page.refactored_code = request.code_input

\* C9 as stated: in the desktop shell, after a run has ended with an error
\* the output area still shows what it showed when the run was submitted.
C9_ErrorKeepsOutput ==
    (/\ shell = "desktop"
     /\ handled > 0
     /\ handled = dispatched
     /\ last_result.error # <<>>) =>
        output_text = prev_output

\* C9 as amended: in the desktop shell, after a dispatched run has ended
\* with an error the output area is empty, whatever it showed when the run
\* was submitted.
C9_ErrorClearsOutput ==
    (/\ shell = "desktop"
     /\ handled > 0
     /\ handled = dispatched
     /\ last_result.error # <<>>) =>
        output_text = <<>>

C9_Witness ==
    /\ shell = "desktop"
    /\ handled = 2
    /\ dispatched = 2
    /\ last_result.error # <<>>
    /\ last_result.refactored_code # <<>>
    /\ dialog = "api_error"
    /\ prev_output # <<>>
    /\ output_text = <<>>

\* C10: each entry point probes the model service exactly once at launch,
\* aborts when the probe fails, and starts no pipeline run in a process
\* launched while the service was unreachable.
C10_ProbedOnceAtLaunch ==
    /\ phase # "launch" => probes = 1
    /\ (phase # "launch" /\ ~service_up) => phase = "aborted"
    /\ ~service_up => (calls = <<>> /\ requests = 0 /\ dispatched = 0)

\* The error value of the latest run: the page's in the web shell, the
\* emitted result's in the desktop shell.
RunError == IF shell = "web" THEN page.error ELSE LatestResult.error

\* C11: every fault of a model call, raised by the call or by the read of
\* its payload, is in the run's error value as a message labelled with the
\* stage of that call; no stage issues more than one call in a run; and a
\* run without error has issued exactly three calls in the web shell
\* (refactor, document, explain) and two in the desktop shell (refactor,
\* explain).
C11_FaultsReturnedOneCallPerStage ==
    /\ \A i \in DOMAIN calls :
          calls[i].fault # "none" =>
              \E k \in DOMAIN RunError :
                  RunError[k] = ApiError(StageOf(calls[i]), calls[i].fault)
    /\ \A i, j \in DOMAIN calls :
          i # j => StageOf(calls[i]) # StageOf(calls[j])
    /\ (Posted /\ page.error = <<>>) =>
           StagesCalled = <<"refactor", "document", "explain">>
    /\ (shell = "desktop" /\ emitted > 0 /\ LatestResult.error = <<>>) =>
           StagesCalled = <<"refactor", "explain">>

C11_Witness ==
    /\ Posted
    /\ Len(calls) = 3
    /\ calls[1].fault = "none"
    /\ calls[2].fault = "KeyError"
    /\ calls[3].fault = "ConnectionError"
    /\ page.error = <<ApiError("document", "KeyError"),
                      ApiError("explain", "ConnectionError")>>

\* The conditional blocks of HTML_TEMPLATE that a page's arguments switch
\* on: the refactored code under {% if refactored_code %}, the hidden
\* explanation with its download button under {% if final_code %}, and the
\* error under {% if error %}.
HTML_TEMPLATE(p) ==
    [refactored_block |-> p.refactored_code # <<>>,
     explanation_block |-> p.final_code # <<>>,
     error_block |-> p.error # <<>>]

\* Whether the explain stage of the latest run was called and did not fault.
ExplainSucceeded ==
    \E i \in DOMAIN calls :
        StageOf(calls[i]) = "explain" /\ calls[i].fault = "none"

\* C12: in the web shell, the page rendered for a POST offers the
\* explanation block and its download trigger exactly when the explain
\* stage of that request succeeded, also when the document stage failed.
C12_ExplanationOfferedIffExplained ==
    Posted => (HTML_TEMPLATE(page).explanation_block <=> ExplainSucceeded)

\* C13: in the desktop shell, whenever the download button is enabled no
\* run is in flight, the latest handled run succeeded, and the stored
\* explanation and the refactored code in the output area are both that
\* run's; while a run is in flight and after a run that failed the button
\* is disabled; and a file is written only once a run has been handled,
\* never with an empty text.
C13_DownloadOffersLatestRun ==
    shell = "desktop" =>
        /\ download_enabled =>
              /\ InFlight = 0
              /\ handled > 0
              /\ last_result.error = <<>>
              /\ korean_explanation = last_result.korean_explanation
              /\ output_text = last_result.refactored_code
        /\ InFlight > 0 => ~download_enabled
        /\ (handled > 0 /\ handled = dispatched /\ last_result.error # <<>>)
              => ~download_enabled
        /\ saved # NotSaved => (saved # <<>> /\ handled > 0)

C13_Witness ==
    /\ shell = "desktop"
    /\ handled = 2
    /\ dispatched = 2
    /\ last_result.error # <<>>
    /\ korean_explanation # <<>>
    /\ saved = korean_explanation
    /\ ~download_enabled

====
